---- MODULE Spec2Model ----
(***************************************************************************)
(* State-machine model of SnakeGame (src/snakev0.py): the run() loop, the  *)
(* event handler, the frame counter and the simulation step update().      *)
(*                                                                         *)
(* pc is the position of the single thread inside run():                   *)
(*   "events"     in handle_input, in the for loop over pygame.event.get() *)
(*   "reset"      inside that loop, state already 'playing', at reset()    *)
(*   "keys"       inside that loop, reset() returned, at the in-game keys  *)
(*   "tick"       handle_input returned, at `if self.state == 'playing'`   *)
(*   "update"     frame_count was reset to 0, at the call of update()      *)
(*   "draw"       at draw() / clock.tick()                                 *)
(*   "spawn_food" update() has eaten, inside spawn_food's `while True`     *)
(*   "exited"     _quit() ran: sys.exit()                                  *)
(*   "sounds"     SoundManager.__init__ is still generating the buffers    *)
(*                                                                         *)
(* The source grid is 30 x 20 cells; the model keeps every rule of the     *)
(* code and scales the grid down (grid_width, grid_height).                *)
(*                                                                         *)
(* Variables of the code (src/snakev0.py): state (line 112), snake (118),  *)
(* direction (119), next_direction (120), food (131), score (122),         *)
(* game_over (123), frame_count (103, 124); event is the loop variable of  *)
(* handle_input (136) while reset() and the in-game keys still need it.    *)
(*                                                                         *)
(* synth holds the position (at) and the locals of _make_sound (24-60):    *)
(* its arguments (call), n_samples, max_amp, the loop index i and the      *)
(* sample written last (buf_i). Once the game runs it is sounds_ready.     *)
(*                                                                         *)
(* Observers, which the code does not hold:                                *)
(*   tones           the tones triggered so far in the current frame       *)
(*   applied         the directions update() applied in its last two calls *)
(*                   of this game (the reset direction before them)        *)
(*   playing_frames  frames counted while 'playing' since the last reset() *)
(*                   or update()                                           *)
(*   begun           "moved" once update() ran in the current game; before *)
(*                   that, where the game was begun: "init" (__init__, no  *)
(*                   start input yet), "menu" or "gameover" (a restart)    *)
(***************************************************************************)
EXTENDS Integers, Sequences, FiniteSets

VARIABLES state, snake, direction, next_direction, food, score, game_over,
          frame_count, pc, event, tones, applied, playing_frames, begun, synth

vars == <<state, snake, direction, next_direction, food, score, game_over,
          frame_count, pc, event, tones, applied, playing_frames, begun, synth>>

\* The variables of SnakeGame and their observers, without the synthesizer.
game == <<state, snake, direction, next_direction, food, score, game_over,
          frame_count, pc, event, tones, applied, playing_frames, begun>>

\* ---------------------------------------------------------------- parameters
grid_width == 3

grid_height == 2

cell_size == 20

fps == 60

move_rate == 10

frames_per_move == fps \div move_rate

\* The synthesizer: the largest 16-bit sample, and the inputs _make_sound is
\* run on. The time base is scaled down: a mixer rate of a few samples per
\* second, durations in half seconds, frequencies of a few Hz. Volumes are the
\* fractions n / d of [0, 1] with d <= MaxVolumeDen.
int16_max == 32767

sample_rate == 4

MaxFreq == 2

MaxHalfSeconds == 3

MaxVolumeDen == 5

\* ------------------------------------------------------------------- helpers
Cells == (0 .. grid_width - 1) \X (0 .. grid_height - 1)

Range(s) == {s[i] : i \in 1 .. Len(s)}

Abs(n) == IF n < 0 THEN -n ELSE n

Neg(d) == <<-d[1], -d[2]>>

\* ------------------------------------------------------------------- inputs
Keys == {"K_UP", "K_w", "K_DOWN", "K_s", "K_LEFT", "K_a", "K_RIGHT", "K_d",
         "K_y", "K_RETURN", "K_n", "K_SPACE"}

Events == {[type |-> t, key |-> "none"] : t \in {"QUIT", "MOUSEBUTTONDOWN", "MOUSEMOTION"}}
          \cup {[type |-> "KEYDOWN", key |-> k] : k \in Keys}

NoEvent == [type |-> "NOEVENT", key |-> "none"]

\* Pointer samples, per axis: the window's first pixel and the centre pixel of
\* every cell. From every head cell they vote for each of the four directions,
\* and they include dx = dy = 0 and the ties |dx| = |dy|.
MouseXs == {0} \cup {c * cell_size + cell_size \div 2 : c \in 0 .. grid_width - 1}

MouseYs == {0} \cup {c * cell_size + cell_size \div 2 : c \in 0 .. grid_height - 1}

\* ------------------------------------------------------------------ the code
\* reset(): the start cell.
start_cell == <<grid_width \div 2, grid_height \div 2>>

\* A spawn_food that does not test `pos not in self.snake`.
spawn_food_any_cell(body) == Cells

\* spawn_food(): the cells the sampling loop can return.
spawn_food(body) == Cells \ Range(body)

\* A key test against the pending vote instead of the current direction.
key_vote_against_pending(ev, dir, nd) ==
    IF ev.type # "KEYDOWN" THEN nd
    ELSE IF ev.key \in {"K_UP", "K_w"} /\ nd[2] = 0 THEN <<0, -1>>
    ELSE IF ev.key \in {"K_DOWN", "K_s"} /\ nd[2] = 0 THEN <<0, 1>>
    ELSE IF ev.key \in {"K_LEFT", "K_a"} /\ nd[1] = 0 THEN <<-1, 0>>
    ELSE IF ev.key \in {"K_RIGHT", "K_d"} /\ nd[1] = 0 THEN <<1, 0>>
    ELSE nd

\* handle_input, in-game keyboard input: the pending vote after a key event.
key_vote(ev, dir, nd) ==
    IF ev.type # "KEYDOWN" THEN nd
    ELSE IF ev.key \in {"K_UP", "K_w"} /\ dir[2] = 0 THEN <<0, -1>>
    ELSE IF ev.key \in {"K_DOWN", "K_s"} /\ dir[2] = 0 THEN <<0, 1>>
    ELSE IF ev.key \in {"K_LEFT", "K_a"} /\ dir[1] = 0 THEN <<-1, 0>>
    ELSE IF ev.key \in {"K_RIGHT", "K_d"} /\ dir[1] = 0 THEN <<1, 0>>
    ELSE nd

\* A dominant-axis test in which ties go horizontal (>= for >).
mouse_dir_ties_horizontal(mx, my, head) ==
    LET dx == 2 * mx - (2 * head[1] * cell_size + cell_size)
        dy == 2 * my - (2 * head[2] * cell_size + cell_size)
    IN  IF Abs(dx) >= Abs(dy)
        THEN <<IF dx > 0 THEN 1 ELSE -1, 0>>
        ELSE <<0, IF dy > 0 THEN 1 ELSE -1>>

\* handle_input, in-game mouse input: the direction the pointer votes for.
\* dx, dy are kept doubled so that cell_size / 2 stays an integer.
mouse_dir(mx, my, head) ==
    LET dx == 2 * mx - (2 * head[1] * cell_size + cell_size)
        dy == 2 * my - (2 * head[2] * cell_size + cell_size)
    IN  IF Abs(dx) > Abs(dy)
        THEN <<IF dx > 0 THEN 1 ELSE -1, 0>>
        ELSE <<0, IF dy > 0 THEN 1 ELSE -1>>

\* A pointer vote that is accepted without the reversal test, and one that
\* gives way to a turn that is already pending.
mouse_vote_unchecked(new_dir, dir, nd) == new_dir

mouse_vote_keeps_turn(new_dir, dir, nd) ==
    IF nd # dir THEN nd ELSE IF new_dir # Neg(dir) THEN new_dir ELSE nd

\* handle_input, in-game mouse input: the pending vote after the pointer sample.
mouse_vote(new_dir, dir, nd) == IF new_dir # Neg(dir) THEN new_dir ELSE nd

\* handle_input: the start input of the menu.
is_start(ev) == ev.type \in {"KEYDOWN", "MOUSEBUTTONDOWN"}

\* A game-over screen that restarts on any key.
is_restart_any_key(ev) == ev.type = "KEYDOWN"

\* handle_input: the restart and the decline input of the game-over screen.
is_restart(ev) == ev.type = "KEYDOWN" /\ ev.key \in {"K_y", "K_RETURN"}

is_decline(ev) == ev.type = "KEYDOWN" /\ ev.key = "K_n"

\* A counter that also runs in the menu and on the game-over screen.
counts_frames_always(st) == TRUE

\* run(): the frame counter runs only while 'playing'.
counts_frames(st) == st = "playing"

\* A move that is due one frame late (> for >=).
move_due_late(count) == count > frames_per_move

\* run(): the move is due.
move_due(count) == count >= frames_per_move

\* update(): the cell the head moves to, and the collision test.
new_head(body, dir) == <<body[1][1] + dir[1], body[1][2] + dir[2]>>

\* A collision test that spares the tail cell, which the move would vacate.
collides_spares_tail(nh, body) ==
    \/ nh \in Range(SubSeq(body, 1, Len(body) - 1))
    \/ ~(0 <= nh[1] /\ nh[1] < grid_width)
    \/ ~(0 <= nh[2] /\ nh[2] < grid_height)

\* A collision test without the self-collision test, and one without the walls.
collides_walls_only(nh, body) ==
    \/ ~(0 <= nh[1] /\ nh[1] < grid_width)
    \/ ~(0 <= nh[2] /\ nh[2] < grid_height)

collides_self_only(nh, body) == nh \in Range(body)

collides(nh, body) ==
    \/ nh \in Range(body)
    \/ ~(0 <= nh[1] /\ nh[1] < grid_width)
    \/ ~(0 <= nh[2] /\ nh[2] < grid_height)

\* A step that never pops the tail.
moved_snake_never_pops(nh, body, ate) == <<nh>> \o body

\* update(): snake.insert(0, new_head), then snake.pop() unless food was eaten.
moved_snake(nh, body, ate) ==
    IF ate THEN <<nh>> \o body ELSE SubSeq(<<nh>> \o body, 1, Len(body))

\* SoundManager.play_eat / play_death: the tones triggered in this frame.
play_eat(played) == Append(played, "eat")

\* A death tone that is never triggered.
play_death_silent(played) == played

play_death(played) == Append(played, "death")

\* ------------------------------------------------------------ the synthesizer
\* Python's round() of the fraction n / d, n >= 0: halves go to the even side.
round_half_even(n, d) ==
    LET q == n \div d
        r == n % d
    IN  IF 2 * r < d THEN q
        ELSE IF 2 * r > d THEN q + 1
        ELSE IF q % 2 = 0 THEN q ELSE q + 1

\* Python's int() of the fraction n / d: truncation toward zero.
int_trunc(n, d) == IF n >= 0 THEN n \div d ELSE -((-n) \div d)

\* _make_sound: n_samples = int(round(duration * sample_rate)), the duration
\* given in half seconds.
n_samples(halves) == round_half_even(halves * sample_rate, 2)

\* A peak amplitude that is rounded to the nearest integer.
max_amp_rounded(vol) == round_half_even(int16_max * vol[1], vol[2])

\* _make_sound: max_amp = int(32767 * volume), the volume vol[1] / vol[2].
max_amp(vol) == int_trunc(int16_max * vol[1], vol[2])

\* _make_sound: current_freq * t for sample i, as the fraction
\* cycles_num / cycles_den. t = i / sample_rate; with decay current_freq is
\* freq * (1 - t / duration), else freq.
cycles_num(c, i) ==
    IF c.decay THEN c.freq * i * (sample_rate * c.halves - 2 * i) ELSE c.freq * i

cycles_den(c) ==
    IF c.decay THEN sample_rate * sample_rate * c.halves ELSE sample_rate

\* The square wave: max_amp if sin(2 pi x) > 0 else -max_amp. For x = 0 the
\* sine is 0.0; for any other multiple of half a cycle the float sine is a
\* rounding residue of either sign.
square_samples(c, i, amp) ==
    LET xn == cycles_num(c, i)
        xd == cycles_den(c)
        fr == xn % xd
    IN  IF xn = 0 THEN {-amp}
        ELSE IF fr = 0 \/ 2 * fr = xd THEN {amp, -amp}
        ELSE IF 2 * fr < xd THEN {amp} ELSE {-amp}

\* The sawtooth: int(max_amp * (2 * (x - floor(0.5 + x)))). Where the exact
\* product is a whole number other than 0 the float product may fall just
\* short of it, and int() then gives the next number toward zero.
sawtooth_samples(c, i, amp) ==
    LET xn == cycles_num(c, i)
        xd == cycles_den(c)
        fl == (2 * xn + xd) \div (2 * xd)
        vn == 2 * amp * (xn - xd * fl)
    IN  IF vn % xd = 0 /\ vn # 0
        THEN {vn \div xd, (vn \div xd) - (IF vn > 0 THEN 1 ELSE -1)}
        ELSE {int_trunc(vn, xd)}

\* The sine, the default shape: int(max_amp * sin(2 pi x)), at the phases that
\* are whole quarter turns, where the float sine is 1.0, -1.0 or a residue
\* that int() cuts to 0.
sine_samples(c, i, amp) ==
    LET xn == cycles_num(c, i)
        xd == cycles_den(c)
        quarter == (4 * (xn % xd)) \div xd
    IN  IF quarter = 1 THEN {amp} ELSE IF quarter = 3 THEN {-amp} ELSE {0}

\* The calls whose sine samples all fall on whole quarter turns.
sine_at_quarter_turns(c) ==
    \A i \in 0 .. n_samples(c.halves) - 1 : (4 * cycles_num(c, i)) % cycles_den(c) = 0

\* _make_sound: the values buf[i] can get.
samples(c, i, amp) ==
    IF c.shape = "square" THEN square_samples(c, i, amp)
    ELSE IF c.shape = "sawtooth" THEN sawtooth_samples(c, i, amp)
    ELSE sine_samples(c, i, amp)

\* The arguments of _make_sound; a shape that is neither 'square' nor
\* 'sawtooth' is synthesized as a sine.
Shapes == {"sine", "square", "sawtooth", "triangle"}

Volumes == {v \in (0 .. MaxVolumeDen) \X (1 .. MaxVolumeDen) : v[1] <= v[2]}

Calls ==
    {c \in [freq : 1 .. MaxFreq, halves : 0 .. MaxHalfSeconds, vol : Volumes,
             shape : Shapes, decay : BOOLEAN] :
        c.shape \in {"square", "sawtooth"} \/ sine_at_quarter_turns(c)}

\* SoundManager.__init__ has returned: both buffers exist.
sounds_ready == [at |-> "ready"]

\* ---------------------------------------------------------------------- Init
\* SnakeGame.__init__: state 'menu', then reset(); run() starts in handle_input.
Init ==
    /\ state = "menu"
    /\ snake = <<start_cell>>
    /\ direction = <<1, 0>>
    /\ next_direction = <<1, 0>>
    /\ food \in spawn_food(<<start_cell>>)
    /\ score = 0
    /\ game_over = FALSE
    /\ frame_count = 0
    /\ pc = "events"
    /\ event = NoEvent
    /\ tones = <<>>
    /\ applied = [prev |-> <<1, 0>>, cur |-> <<1, 0>>]
    /\ playing_frames = 0
    /\ begun = "init"
    /\ synth = sounds_ready

\* ------------------------------------------------------------------- actions
\* A _quit() without sys.exit(): it returns and the loop goes on.
QuitReturns ==
    /\ pc' = pc
    /\ UNCHANGED <<state, snake, direction, next_direction, food, score, game_over,
                   frame_count, event, tones, applied, playing_frames, begun, synth>>

\* _quit(): pygame.quit(); root.destroy(); sys.exit().
Quit ==
    /\ pc' = "exited"
    /\ UNCHANGED <<state, snake, direction, next_direction, food, score, game_over,
                   frame_count, event, tones, applied, playing_frames, begun, synth>>

\* One iteration of `for event in pygame.event.get()`.
HandleEvent(e) ==
    /\ pc = "events"
    /\ IF e.type = "QUIT" THEN Quit
       ELSE IF state = "menu" /\ is_start(e) THEN
            /\ state' = "playing"
            /\ pc' = "reset"
            /\ event' = e
            /\ begun' = "menu"
            /\ UNCHANGED <<snake, direction, next_direction, food, score, game_over,
                           frame_count, tones, applied, playing_frames, synth>>
       ELSE IF state = "gameover" /\ is_restart(e) THEN
            /\ state' = "playing"
            /\ pc' = "reset"
            /\ event' = e
            /\ begun' = "gameover"
            /\ UNCHANGED <<snake, direction, next_direction, food, score, game_over,
                           frame_count, tones, applied, playing_frames, synth>>
       ELSE IF state = "gameover" /\ is_decline(e) THEN Quit
       ELSE /\ next_direction' = IF state = "playing"
                                 THEN key_vote(e, direction, next_direction)
                                 ELSE next_direction
            /\ UNCHANGED <<state, snake, direction, food, score, game_over,
                           frame_count, pc, event, tones, applied, playing_frames, begun, synth>>

\* A reset() that keeps the old score.
ResetKeepsScore ==
    /\ pc = "reset"
    /\ snake' = <<start_cell>>
    /\ direction' = <<1, 0>>
    /\ next_direction' = <<1, 0>>
    /\ food' \in spawn_food(<<start_cell>>)
    /\ game_over' = FALSE
    /\ frame_count' = 0
    /\ pc' = "keys"
    /\ applied' = [prev |-> <<1, 0>>, cur |-> <<1, 0>>]
    /\ playing_frames' = 0
    /\ UNCHANGED <<state, score, event, tones, begun, synth>>

\* reset(), called from the event loop on a start or restart input.
Reset ==
    /\ pc = "reset"
    /\ snake' = <<start_cell>>
    /\ direction' = <<1, 0>>
    /\ next_direction' = <<1, 0>>
    /\ food' \in spawn_food(<<start_cell>>)
    /\ score' = 0
    /\ game_over' = FALSE
    /\ frame_count' = 0
    /\ pc' = "keys"
    /\ applied' = [prev |-> <<1, 0>>, cur |-> <<1, 0>>]
    /\ playing_frames' = 0
    /\ UNCHANGED <<state, event, tones, begun, synth>>

\* The rest of the iteration that called reset(): the in-game keyboard input
\* sees the same event, with state now 'playing'.
InGameKey ==
    /\ pc = "keys"
    /\ next_direction' = key_vote(event, direction, next_direction)
    /\ event' = NoEvent
    /\ pc' = "events"
    /\ UNCHANGED <<state, snake, direction, food, score, game_over, frame_count,
                   tones, applied, playing_frames, begun, synth>>

\* A mouse input that votes in every mode.
MouseInputAnyState(mx, my) ==
    /\ pc = "events"
    /\ next_direction' = mouse_vote(mouse_dir(mx, my, snake[1]), direction, next_direction)
    /\ pc' = "tick"
    /\ UNCHANGED <<state, snake, direction, food, score, game_over, frame_count,
                   event, tones, applied, playing_frames, begun, synth>>

\* The event queue is drained: the in-game mouse input, and handle_input returns.
MouseInput(mx, my) ==
    /\ pc = "events"
    /\ next_direction' = IF state = "playing"
                         THEN mouse_vote(mouse_dir(mx, my, snake[1]), direction, next_direction)
                         ELSE next_direction
    /\ pc' = "tick"
    /\ UNCHANGED <<state, snake, direction, food, score, game_over, frame_count,
                   event, tones, applied, playing_frames, begun, synth>>

\* run(): the frame counter.
Tick ==
    /\ pc = "tick"
    /\ IF counts_frames(state)
       THEN /\ playing_frames' = playing_frames + 1
            /\ IF move_due(frame_count + 1)
               THEN frame_count' = 0 /\ pc' = "update"
               ELSE frame_count' = frame_count + 1 /\ pc' = "draw"
       ELSE /\ pc' = "draw"
            /\ UNCHANGED <<frame_count, playing_frames>>
    /\ UNCHANGED <<state, snake, direction, next_direction, food, score, game_over,
                   event, tones, applied, begun, synth>>

\* update().
Update ==
    /\ pc = "update"
    /\ direction' = next_direction
    /\ applied' = [prev |-> applied.cur, cur |-> next_direction]
    /\ playing_frames' = 0
    /\ begun' = "moved"
    /\ LET nh == new_head(snake, next_direction) IN
       IF collides(nh, snake)
       THEN /\ tones' = play_death(tones)
            /\ game_over' = TRUE
            /\ state' = "gameover"
            /\ pc' = "draw"
            /\ UNCHANGED <<snake, food, score>>
       ELSE /\ snake' = moved_snake(nh, snake, nh = food)
            /\ IF nh = food
               THEN /\ score' = score + 1
                    /\ tones' = play_eat(tones)
                    /\ pc' = "spawn_food"
                    /\ food' = food
               ELSE /\ pc' = "draw"
                    /\ UNCHANGED <<food, score, tones>>
            /\ UNCHANGED <<state, game_over>>
    /\ UNCHANGED <<next_direction, frame_count, event, synth>>

\* spawn_food(), called by update(): the `while True` loop. An iteration that
\* samples a snake cell changes nothing and the loop goes on; one that samples
\* a free cell stores it and returns to update(), which returns to run().
SpawnFood ==
    /\ pc = "spawn_food"
    /\ \E pos \in Cells :
          IF pos \in spawn_food(snake)
          THEN /\ food' = pos
               /\ pc' = "draw"
               /\ UNCHANGED <<state, snake, direction, next_direction, score, game_over,
                              frame_count, event, tones, applied, playing_frames, begun, synth>>
          ELSE UNCHANGED vars

\* draw() and clock.tick(): the frame ends, the next one begins.
Draw ==
    /\ pc = "draw"
    /\ pc' = "events"
    /\ tones' = <<>>
    /\ UNCHANGED <<state, snake, direction, next_direction, food, score, game_over,
                   frame_count, event, applied, playing_frames, begun, synth>>

\* The window's close button: Tk runs the WM_DELETE_WINDOW handler, _quit,
\* inside root.update() of draw().
WindowClose ==
    /\ pc = "draw"
    /\ Quit

Next ==
    \/ \E e \in Events : HandleEvent(e)
    \/ Reset
    \/ InGameKey
    \/ \E mx \in MouseXs, my \in MouseYs : MouseInput(mx, my)
    \/ Tick
    \/ Update
    \/ SpawnFood
    \/ Draw
    \/ WindowClose

Spec == Init /\ [][Next]_vars

\* _make_sound(freq, duration, volume, shape, decay), as a function of its
\* arguments: the call, one loop iteration per sample, the return. The fields
\* of SnakeGame are not assigned yet; they stand at the values __init__ gives
\* them.
SynthInit ==
    /\ state = "menu"
    /\ snake = <<start_cell>>
    /\ direction = <<1, 0>>
    /\ next_direction = <<1, 0>>
    /\ food = <<0, 0>>
    /\ score = 0
    /\ game_over = FALSE
    /\ frame_count = 0
    /\ pc = "sounds"
    /\ event = NoEvent
    /\ tones = <<>>
    /\ applied = [prev |-> <<1, 0>>, cur |-> <<1, 0>>]
    /\ playing_frames = 0
    /\ begun = "init"
    /\ \E c \in Calls : synth = [at |-> "call", call |-> c]

MakeSoundCall ==
    /\ synth.at = "call"
    /\ synth' = [at |-> "loop", call |-> synth.call,
                 n_samples |-> n_samples(synth.call.halves),
                 max_amp |-> max_amp(synth.call.vol),
                 i |-> 0, buf_i |-> 0]
    /\ UNCHANGED game

MakeSoundSample ==
    /\ synth.at = "loop"
    /\ synth.i < synth.n_samples
    /\ \E val \in samples(synth.call, synth.i, synth.max_amp) :
          synth' = [synth EXCEPT !.i = synth.i + 1, !.buf_i = val]
    /\ UNCHANGED game

MakeSoundReturn ==
    /\ synth.at = "loop"
    /\ synth.i = synth.n_samples
    /\ synth' = [synth EXCEPT !.at = "returned"]
    /\ UNCHANGED game

SynthNext == MakeSoundCall \/ MakeSoundSample \/ MakeSoundReturn

SynthSpec == SynthInit /\ [][SynthNext]_vars

\* spawn_food samples with random.randint, uniformly and independently: with
\* probability 1 an iteration that can return is not postponed forever.
FairSpec == Spec /\ WF_vars(SpawnFood)

\* The mode of the spec's lifecycle.
Mode == IF pc = "exited" THEN "Terminated" ELSE state

\* ------------------------------------------------------- notions of the claims
\* The cell the next step moves the head to, and whether that step collides:
\* stated on the state in which update() is called (pc = "update").
StepHead == <<snake[1][1] + next_direction[1], snake[1][2] + next_direction[2]>>

StepCollides ==
    \/ StepHead \notin Cells
    \/ \E i \in 1 .. Len(snake) : snake[i] = StepHead

AtStep == pc = "update"

GridCentre == <<grid_width \div 2, grid_height \div 2>>

TicksPerMove == fps \div move_rate

\* ------------------------------------------------------------------------ C1
\* C1: the direction update() applies in a step is never the exact opposite of
\* the direction it applied in the previous step of the same game, nor of the
\* reset direction (1,0) on the first step, whatever keys and pointer samples
\* were polled in between.
NoReversal == applied.cur # <<-applied.prev[1], -applied.prev[2]>>

\* A step applied a turn, and a second one turned the snake against the reset
\* direction.
NoReversalWitness ==
    /\ begun = "moved"
    /\ pc = "draw"
    /\ applied.prev # <<1, 0>>
    /\ applied.cur = <<-1, 0>>

\* ------------------------------------------------------------------------ C2
\* C2: a step that does not collide and moves the head onto the food makes the
\* snake one cell longer and the score one higher; a step that does not collide
\* and does not eat keeps length and score (the head is prepended, the tail
\* removed). The score never decreases within a game and is never negative.
EatGrowsByOne ==
    /\ [][(AtStep /\ ~StepCollides) =>
            IF StepHead = food
            THEN /\ snake' = <<StepHead>> \o snake
                 /\ Len(snake') = Len(snake) + 1
                 /\ score' = score + 1
            ELSE /\ snake' = <<StepHead>> \o SubSeq(snake, 1, Len(snake) - 1)
                 /\ Len(snake') = Len(snake)
                 /\ score' = score]_vars
    /\ [][pc # "reset" => score' >= score]_vars
    /\ [](score >= 0)

\* The snake has just eaten its second food.
EatGrowsByOneWitness ==
    /\ pc = "draw"
    /\ tones = <<"eat">>
    /\ score = 2
    /\ Len(snake) = 3

\* ------------------------------------------------------------------------ C3
\* C3: right after every reset() (the one of __init__ and the ones of the event
\* loop) and right after every step in which the snake eats, the food is a cell
\* of the grid and is no cell of the snake, the new head included.
FoodOffSnake ==
    (\/ pc = "keys"
     \/ (pc = "events" /\ state = "menu")
     \/ (pc = "draw" /\ tones = <<"eat">>))
    => /\ food \in Cells
       /\ \A i \in 1 .. Len(snake) : snake[i] # food

\* The snake of length 4 has just eaten and new food was placed.
FoodOffSnakeWitness ==
    /\ pc = "draw"
    /\ tones = <<"eat">>
    /\ Len(snake) = 4
    /\ food \notin Range(snake)

\* ------------------------------------------------------------------------ C4
\* C4 as stated: a colliding step leaves snake, food, score, current direction,
\* pending vote and frame counter unchanged and only sets the mode to GameOver.
CollisionChangesOnlyMode ==
    [][(AtStep /\ StepCollides) =>
          /\ state' = "gameover"
          /\ snake' = snake
          /\ food' = food
          /\ score' = score
          /\ direction' = direction
          /\ next_direction' = next_direction
          /\ frame_count' = frame_count]_vars

\* C4, amended: a colliding step leaves snake, food, score, pending vote and
\* frame counter unchanged and sets the mode to GameOver; the move is not
\* applied, but the current direction has become the pending vote.
CollisionKeepsBoard ==
    [][(AtStep /\ StepCollides) =>
          /\ state' = "gameover"
          /\ snake' = snake
          /\ food' = food
          /\ score' = score
          /\ direction' = next_direction
          /\ next_direction' = next_direction
          /\ frame_count' = frame_count]_vars

\* A step collided after it adopted a pending turn.
CollisionKeepsBoardWitness ==
    /\ pc = "draw"
    /\ state = "gameover"
    /\ tones = <<"death">>
    /\ applied.cur # applied.prev
    /\ direction = applied.cur

\* ------------------------------------------------------------------------ C5
\* C5: in every reachable state the snake has at least one cell, no two of its
\* cells are equal, and every cell lies in the grid.
SnakeWellFormed ==
    /\ Len(snake) >= 1
    /\ \A i \in 1 .. Len(snake) :
          /\ 0 <= snake[i][1] /\ snake[i][1] < grid_width
          /\ 0 <= snake[i][2] /\ snake[i][2] < grid_height
    /\ \A i, j \in 1 .. Len(snake) : i # j => snake[i] # snake[j]

\* A grown snake ran into itself or a wall.
SnakeWellFormedWitness ==
    /\ state = "gameover"
    /\ tones = <<"death">>
    /\ Len(snake) >= 4

\* ------------------------------------------------------------------------ C6
\* C6: the mode starts as Menu and changes only along these edges:
\* Menu -> Playing on a key-down or mouse-button-down event, Playing -> GameOver
\* on a colliding step, GameOver -> Playing on Y or Return, GameOver ->
\* Terminated on N, and any mode -> Terminated on a window close. N while
\* Playing does not terminate, no other event restarts from GameOver, and Menu
\* is never entered again. (The first conjunct below lists the edges; the last
\* three say, for every mode and every event, which mode handling it leads to.)
StartEvents == {e \in Events : e.type \in {"KEYDOWN", "MOUSEBUTTONDOWN"}}

RestartEvents == {e \in Events : e.type = "KEYDOWN" /\ e.key \in {"K_y", "K_RETURN"}}

DeclineEvents == {e \in Events : e.type = "KEYDOWN" /\ e.key = "K_n"}

CloseEvents == {e \in Events : e.type = "QUIT"}

\* In the state at hand, every way of handling event e leads to mode m.
EventLeadsTo(e, m) == ~ENABLED (HandleEvent(e) /\ Mode' # m)

ModeEdges ==
    /\ Mode = "menu"
    /\ [][Mode' # Mode =>
            \/ /\ Mode = "menu" /\ Mode' = "playing"
               /\ \E e \in StartEvents : HandleEvent(e)
            \/ /\ Mode = "playing" /\ Mode' = "gameover"
               /\ AtStep /\ StepCollides
            \/ /\ Mode = "gameover" /\ Mode' = "playing"
               /\ \E e \in RestartEvents : HandleEvent(e)
            \/ /\ Mode = "gameover" /\ Mode' = "Terminated"
               /\ \E e \in DeclineEvents : HandleEvent(e)
            \/ /\ Mode' = "Terminated"
               /\ \/ \E e \in CloseEvents : HandleEvent(e)
                  \/ WindowClose]_vars
    /\ [][(AtStep /\ StepCollides) => (Mode = "playing" /\ Mode' = "gameover")]_vars
    /\ []((pc = "events" /\ Mode = "menu") =>
            /\ \A e \in StartEvents : EventLeadsTo(e, "playing")
            /\ \A e \in CloseEvents : EventLeadsTo(e, "Terminated")
            /\ \A e \in Events \ (StartEvents \cup CloseEvents) : EventLeadsTo(e, "menu"))
    /\ []((pc = "events" /\ Mode = "playing") =>
            /\ \A e \in CloseEvents : EventLeadsTo(e, "Terminated")
            /\ \A e \in Events \ CloseEvents : EventLeadsTo(e, "playing"))
    /\ []((pc = "events" /\ Mode = "gameover") =>
            /\ \A e \in RestartEvents : EventLeadsTo(e, "playing")
            /\ \A e \in DeclineEvents \cup CloseEvents : EventLeadsTo(e, "Terminated")
            /\ \A e \in Events \ (RestartEvents \cup DeclineEvents \cup CloseEvents) :
                  EventLeadsTo(e, "gameover"))

\* The restart edge was taken from the game-over screen with Y: reset() is
\* about to run for a game that was started, played and lost.
ModeEdgesWitness ==
    /\ pc = "reset"
    /\ begun = "gameover"
    /\ game_over
    /\ event.key = "K_y"

\* ------------------------------------------------------------------------ C7
\* C7: reset() is called on every Menu -> Playing and GameOver -> Playing
\* transition, and at the moment it returns the snake is the single cell
\* (W div 2, H div 2), current direction and pending vote are (1,0), score and
\* frame counter are 0 and the food is a grid cell off the snake, whatever the
\* previous game left.
ResetReplacesGame ==
    /\ [][(state # "playing" /\ state' = "playing") => pc' = "reset"]_vars
    /\ [][pc = "reset" => pc' = "keys"]_vars
    /\ [](pc = "keys" =>
            /\ state = "playing"
            /\ snake = <<GridCentre>>
            /\ direction = <<1, 0>>
            /\ next_direction = <<1, 0>>
            /\ score = 0
            /\ frame_count = 0
            /\ food \in Cells \ {GridCentre})

\* reset() returned in a restart.
ResetReplacesGameWitness ==
    /\ pc = "keys"
    /\ begun = "gameover"
    /\ event.key = "K_RETURN"

\* ------------------------------------------------------------------------ C8
\* C8: with ticks_per_move = 60 div 10 = 6, every frame that is Playing after
\* the input drain adds 1 to the counter, and exactly when it reaches
\* ticks_per_move the counter is set to 0 and step() is invoked, once; so at
\* every frame boundary 0 <= counter < ticks_per_move, no frame invokes step()
\* twice, and a step is invoked exactly ticks_per_move Playing frames after the
\* previous step of the game.
FrameCounter ==
    /\ TicksPerMove = 6
    /\ [][(pc = "tick" /\ state = "playing") =>
            IF frame_count + 1 = TicksPerMove
            THEN frame_count' = 0 /\ pc' = "update"
            ELSE frame_count' = frame_count + 1 /\ pc' = "draw"]_vars
    /\ [][pc' = "update" => (pc = "tick" /\ state = "playing")]_vars
    /\ [][pc = "update" => pc' \in {"draw", "spawn_food"}]_vars
    /\ [](pc = "events" => (0 <= frame_count /\ frame_count < TicksPerMove))
    /\ [](pc = "update" => (frame_count = 0 /\ playing_frames = TicksPerMove))

\* A second or later step of a game is invoked, six Playing frames after the
\* previous one.
FrameCounterWitness ==
    /\ pc = "update"
    /\ begun = "moved"
    /\ playing_frames = 6
    /\ frame_count = 0

\* ------------------------------------------------------------------------ C9
\* C9: while the mode is Menu or GameOver the frame counter does not change,
\* it is 0 when reset() returns on a Menu -> Playing or GameOver -> Playing
\* transition, and the first step of every game is invoked only after
\* ticks_per_move Playing frames, the frame that polled the start or restart
\* input being the first of them.
CounterFrozenOffPlay ==
    /\ [][(state \in {"menu", "gameover"} /\ state' = state) =>
            frame_count' = frame_count]_vars
    /\ [](state \in {"menu", "gameover"} => pc # "update")
    /\ [](pc = "keys" => (frame_count = 0 /\ playing_frames = 0))
    /\ []((pc = "update" /\ begun # "moved") => playing_frames = TicksPerMove)

\* The first step of a restarted game is invoked, six Playing frames after the
\* restart.
CounterFrozenOffPlayWitness ==
    /\ begun = "gameover"
    /\ pc = "update"
    /\ playing_frames = 6

\* ----------------------------------------------------------------------- C10
\* C10: the death tone is triggered exactly once in every colliding step, which
\* is every Playing -> GameOver transition, and in no other step of the
\* program: never while the mode stays GameOver, and never twice in a frame.
DeathTriggered == tones' = Append(tones, "death")

DeathToneOncePerDeath ==
    /\ [][DeathTriggered <=> (state = "playing" /\ state' = "gameover")]_vars
    /\ [][DeathTriggered <=> (AtStep /\ StepCollides)]_vars
    /\ [](Cardinality({i \in 1 .. Len(tones) : tones[i] = "death"}) <= 1)

\* A snake of length 1 stepped to x = -1: game over, and one death tone.
DeathToneOncePerDeathWitness ==
    /\ pc = "draw"
    /\ state = "gameover"
    /\ Len(snake) = 1
    /\ snake[1][1] = 0
    /\ direction = <<-1, 0>>
    /\ tones = <<"death">>

\* ----------------------------------------------------------------------- C11
\* The phase of the frame the thread is in: 1 the input drain (the event loop,
\* reset() and the in-game keys included), 2 the conditional simulation step
\* (the counter and update(), spawn_food included), 3 draw/present.
Phase ==
    CASE pc \in {"events", "reset", "keys"} -> 1
      [] pc \in {"tick", "update", "spawn_food"} -> 2
      [] pc = "draw" -> 3
      [] OTHER -> 0

\* C11: every frame runs input drain, then the conditional simulation step,
\* then draw/present, in that order and without interleaving: the thread stays
\* in its phase or enters the next one, and only draw/present is followed by
\* the input drain of the next frame. update() is invoked only from the step
\* phase and only while the mode is Playing, so never in Menu or GameOver.
FrameOrder ==
    /\ Phase = 1
    /\ [][pc' # "exited" =>
            \/ Phase' = Phase
            \/ Phase' = Phase + 1
            \/ (Phase = 3 /\ Phase' = 1)]_vars
    /\ [][pc' = "update" => (pc = "tick" /\ state = "playing")]_vars
    /\ [](pc = "update" => state = "playing")
    /\ [][(pc = "tick" /\ state # "playing") => pc' = "draw"]_vars
    /\ [][(pc \in {"update", "spawn_food"}) => (next_direction' = next_direction /\ event' = event)]_vars

\* A frame of a running game drained its input, stepped and is at draw.
FrameOrderWitness ==
    /\ pc = "draw"
    /\ state = "playing"
    /\ begun = "moved"
    /\ playing_frames = 0
    /\ Len(snake) = 2

\* ----------------------------------------------------------------------- C12
\* The quit signals of the input drain: the window-close event in every mode,
\* N on the game-over screen.
IsQuitSignal(e) == e.type = "QUIT" \/ (state = "gameover" /\ e.type = "KEYDOWN" /\ e.key = "K_n")

\* C12 as stated: the program terminates only after a frame is complete, that
\* is from draw/present, never from the input drain.
ExitsOnlyAfterFrame == [][pc' = "exited" => pc = "draw"]_vars

\* C12, amended: a quit signal polled in the input drain terminates the program
\* at once, inside the handling of that event: handling it leads nowhere but to
\* termination, with the game left as it is, and the rest of the frame (later
\* events, pointer input, the step, draw/present) is not executed. Once
\* terminated, nothing runs.
QuitExitsAtOnce ==
    /\ [](pc = "events" =>
            \A e \in Events :
                IsQuitSignal(e) => ~ENABLED (HandleEvent(e) /\ pc' # "exited"))
    /\ [][pc' = "exited" =>
            /\ pc \in {"events", "draw"}
            /\ UNCHANGED <<state, snake, direction, next_direction, food, score,
                           game_over, frame_count, tones>>
         ]_vars
    /\ [][pc # "exited"]_vars

\* The program terminated in the input drain of the frame that started the
\* game: reset() ran, no counter tick and no draw followed.
QuitExitsAtOnceWitness ==
    /\ pc = "exited"
    /\ state = "playing"
    /\ begun = "menu"
    /\ playing_frames = 0

\* ----------------------------------------------------------------------- C13
\* The direction a key stands for, <<0, 0>> for a key that is no direction key.
KeyDir(k) ==
    CASE k \in {"K_UP", "K_w"} -> <<0, -1>>
      [] k \in {"K_DOWN", "K_s"} -> <<0, 1>>
      [] k \in {"K_LEFT", "K_a"} -> <<-1, 0>>
      [] k \in {"K_RIGHT", "K_d"} -> <<1, 0>>
      [] OTHER -> <<0, 0>>

KeyEvents == {e \in Events : e.type = "KEYDOWN"}

\* d is a turn perpendicular to the current direction.
Perpendicular(d) == d # <<0, 0>> /\ d[1] * direction[1] + d[2] * direction[2] = 0

\* The pending vote the claim expects after key event e.
VoteAfterKey(e) == IF Perpendicular(KeyDir(e.key)) THEN KeyDir(e.key) ELSE next_direction

\* C13: while Playing, a key event sets the pending vote to the key's direction
\* iff that direction is perpendicular to the current direction (up/down iff
\* the current direction is horizontal, left/right iff it is vertical); a key
\* on the current axis, in either sign, and every other key leave the pending
\* vote as it is. The pending vote itself has no say. This holds for every key
\* event of a poll, the event that started or restarted the game included.
KeyTurnsPerpendicular ==
    /\ (pc = "events" /\ state = "playing") =>
          \A e \in KeyEvents :
              ~ENABLED (HandleEvent(e) /\ next_direction' # VoteAfterKey(e))
    /\ pc = "keys" =>
          /\ state = "playing"
          /\ ~ENABLED (InGameKey /\ next_direction' # VoteAfterKey(event))

\* The snake moves right with a down turn pending: an up key is accepted, a
\* left key is not.
KeyTurnsPerpendicularWitness ==
    /\ pc = "events"
    /\ state = "playing"
    /\ direction = <<1, 0>>
    /\ next_direction = <<0, 1>>
    /\ ENABLED (HandleEvent([type |-> "KEYDOWN", key |-> "K_UP"])
                /\ next_direction' = <<0, -1>>)
    /\ ENABLED (HandleEvent([type |-> "KEYDOWN", key |-> "K_a"])
                /\ next_direction' = <<0, 1>>)

\* ----------------------------------------------------------------------- C14
\* The pixel centre of the head cell, and the pointer's offset from it.
HeadCentre == <<snake[1][1] * cell_size + cell_size \div 2,
                snake[1][2] * cell_size + cell_size \div 2>>

\* The direction the claim lets a pointer at <<mx, my>> vote for.
PointerVote(mx, my) ==
    LET dx == mx - (snake[1][1] * cell_size + cell_size \div 2)
        dy == my - (snake[1][2] * cell_size + cell_size \div 2)
    IN  IF Abs(dx) > Abs(dy)
        THEN (IF dx > 0 THEN <<1, 0>> ELSE <<-1, 0>>)
        ELSE (IF dy > 0 THEN <<0, 1>> ELSE <<0, -1>>)

\* The pending vote the claim expects after the pointer sample.
VoteAfterPointer(mx, my) ==
    LET vote == PointerVote(mx, my)
    IN  IF vote # <<-direction[1], -direction[2]>> THEN vote ELSE next_direction

\* C14: on every poll while Playing the pointer votes by its offset (dx, dy)
\* from the head cell's pixel centre: horizontal with the sign of dx iff
\* |dx| > |dy|, else vertical with the sign of dy, a component that is not
\* positive giving the negative direction (so ties go vertical and dx = dy = 0
\* votes (0,-1)). The vote becomes the pending vote iff it is not the reverse
\* of the current direction; otherwise the pending vote stays.
PointerVotes ==
    /\ cell_size % 2 = 0
    /\ (pc = "events" /\ state = "playing") =>
          ~ENABLED (\E mx \in MouseXs, my \in MouseYs :
                      MouseInput(mx, my) /\ next_direction' # VoteAfterPointer(mx, my))

\* The snake moves right with its head in the top row: a pointer on the head's
\* centre votes up, one on the centre of the cell diagonally below votes down,
\* and one to the left of the head, the reverse, is rejected.
PointerVotesWitness ==
    /\ pc = "events"
    /\ state = "playing"
    /\ begun = "moved"
    /\ direction = <<1, 0>>
    /\ next_direction = <<1, 0>>
    /\ snake[1] = <<1, 0>>
    /\ ENABLED (MouseInput(HeadCentre[1], HeadCentre[2]) /\ next_direction' = <<0, -1>>)
    /\ ENABLED (MouseInput(HeadCentre[1] + cell_size, HeadCentre[2] + cell_size)
                /\ next_direction' = <<0, 1>>)
    /\ ENABLED (MouseInput(0, HeadCentre[2]) /\ next_direction' = <<1, 0>>)

\* ----------------------------------------------------------------------- C15
\* This step accepts a key vote: a key event is handled while Playing and its
\* direction, a perpendicular turn, becomes the pending vote.
KeyVoteAccepted ==
    /\ state = "playing"
    /\ \E e \in KeyEvents :
          /\ HandleEvent(e) \/ (InGameKey /\ event = e)
          /\ Perpendicular(KeyDir(e.key))
          /\ next_direction' = KeyDir(e.key)

\* C15: in a poll the key events are evaluated first and the pointer last, and
\* the last accepted vote wins: the poll ends with the pointer sample, after
\* which no key of that frame is evaluated; whenever a turn is pending when
\* the pointer is sampled, an accepted pointer vote replaces it, and it
\* survives the poll only when the pointer vote is rejected as a reversal. The pending vote changes in no other way than by an accepted
\* vote (and by reset()): it persists through the step, which applies it,
\* through draw/present, and across polls.
LastVoteWins ==
    /\ []((pc = "events" /\ state = "playing" /\ next_direction # direction) =>
            ~ENABLED (\E mx \in MouseXs, my \in MouseYs :
                        /\ MouseInput(mx, my)
                        /\ LET vote == PointerVote(mx, my)
                           IN  IF vote # <<-direction[1], -direction[2]>>
                               THEN next_direction' # vote
                               ELSE next_direction' # next_direction))
    /\ [][pc = "keys" => pc' = "events"]_vars
    /\ [][pc' = "tick" => pc = "events"]_vars
    /\ [][pc = "events" => pc' \in {"events", "reset", "tick", "exited"}]_vars
    /\ [][(pc \in {"tick", "update", "spawn_food", "draw"}) =>
            next_direction' = next_direction]_vars
    /\ [][next_direction' # next_direction =>
            \/ pc = "reset"
            \/ (pc = "events" /\ pc' = "tick" /\ state = "playing")
            \/ KeyVoteAccepted]_vars
    /\ [][pc = "update" => direction' = next_direction]_vars

\* In the poll that started the game an up key was accepted (reset() had left
\* the pending vote at (1,0)), and the pointer, left of the head, is about to
\* be rejected as a reversal: the key's vote survives the poll.
LastVoteWinsWitness ==
    /\ pc = "events"
    /\ state = "playing"
    /\ begun = "menu"
    /\ playing_frames = 0
    /\ direction = <<1, 0>>
    /\ next_direction = <<0, -1>>
    /\ ENABLED (MouseInput(0, HeadCentre[2]) /\ pc' = "tick" /\ next_direction' = <<0, -1>>)
    /\ ENABLED (MouseInput(HeadCentre[1], HeadCentre[2] + cell_size)
                /\ pc' = "tick" /\ next_direction' = <<0, 1>>)

\* ----------------------------------------------------------------------- C16
\* 32767 * volume rounded to the nearest integer, and cut to an integer.
RoundedPeak(vol) == (2 * 32767 * vol[1] + vol[2]) \div (2 * vol[2])

TruncatedPeak(vol) == (32767 * vol[1]) \div vol[2]

\* _make_sound has computed the peak; it has written sample buf[i - 1].
PeakComputed == synth.at \in {"loop", "returned"}

SampleWritten == PeakComputed /\ synth.i >= 1

\* The calls with the volume and shape of the 'eat' tone (0.4, square, no
\* decay) and of the 'death' tone (0.5, sawtooth, decay).
EatLike == 5 * synth.call.vol[1] = 2 * synth.call.vol[2]
           /\ synth.call.shape = "square" /\ ~synth.call.decay

DeathLike == 2 * synth.call.vol[1] = synth.call.vol[2]
             /\ synth.call.shape = "sawtooth" /\ synth.call.decay

\* What C16 says of a peak: the synthesizer uses it, every sample lies in
\* [-peak, peak], and every square sample is +peak or -peak.
PeakBoundsSamples(peak) ==
    /\ synth.max_amp = peak
    /\ SampleWritten => (-peak <= synth.buf_i /\ synth.buf_i <= peak)
    /\ (SampleWritten /\ synth.call.shape = "square") => synth.buf_i \in {peak, -peak}

\* C16 as stated: peak = round(32767 * volume); the 'eat' samples are +13107
\* or -13107 and the 'death' samples lie within +-16384.
PeakIsRounded ==
    PeakComputed =>
        /\ PeakBoundsSamples(RoundedPeak(synth.call.vol))
        /\ (SampleWritten /\ EatLike) => synth.buf_i \in {13107, -13107}
        /\ (SampleWritten /\ DeathLike) => (-16384 <= synth.buf_i /\ synth.buf_i <= 16384)

\* C16, amended: peak = 32767 * volume cut to an integer (int(), not round()),
\* for every volume in [0, 1]; every sample lies in [-peak, peak] and every
\* square sample is +peak or -peak; the 'eat' samples are +13106 or -13106 and
\* the 'death' samples lie within +-16383.
PeakIsTruncated ==
    PeakComputed =>
        /\ PeakBoundsSamples(TruncatedPeak(synth.call.vol))
        /\ (SampleWritten /\ EatLike) => synth.buf_i \in {13106, -13106}
        /\ (SampleWritten /\ DeathLike) => (-16383 <= synth.buf_i /\ synth.buf_i <= 16383)

\* A square wave at volume 0.4 has written a sample of the first half cycle,
\* +13106, where 32767 * 0.4 = 13106.8.
PeakIsTruncatedWitness ==
    /\ synth.at = "loop"
    /\ EatLike
    /\ synth.call.vol = <<2, 5>>
    /\ synth.i = 2
    /\ synth.buf_i = 13106
    /\ synth.max_amp = 13106

\* ----------------------------------------------------------------------- C17
\* The tail: the last cell of the snake as it is before the move.
TailCell == snake[Len(snake)]

\* C17: a step whose new head is the cell the tail occupies before the move is
\* a collision, although the move would vacate that cell: the game goes to
\* GameOver and the snake stays as it was. This holds for every snake of
\* length >= 2 and whatever the food is.
TailCollision ==
    /\ [][(AtStep /\ Len(snake) >= 2 /\ StepHead = TailCell) =>
            /\ state' = "gameover"
            /\ snake' = snake
            /\ score' = score
            /\ tones' = Append(tones, "death")]_vars
    /\ []((AtStep /\ Len(snake) >= 2 /\ StepHead = TailCell) =>
            ~ENABLED (Update /\ state' # "gameover"))

\* A snake of at least four cells stepped onto its own tail cell and the game
\* is over, the tail still where it was.
TailCollisionWitness ==
    /\ pc = "draw"
    /\ state = "gameover"
    /\ tones = <<"death">>
    /\ Len(snake) >= 4
    /\ <<snake[1][1] + direction[1], snake[1][2] + direction[2]>> = TailCell
    /\ \A i \in 1 .. Len(snake) - 1 :
          <<snake[1][1] + direction[1], snake[1][2] + direction[2]>> # snake[i]

\* ----------------------------------------------------------------------- C18
\* The snake occupies the whole grid.
GridFull == Cells \subseteq {snake[i] : i \in 1 .. Len(snake)}

InSpawnFood == pc = "spawn_food"

\* C18: under fair sampling spawn_food returns iff a grid cell is free of the
\* snake. Whenever it runs with a free cell it eventually returns, and then
\* with a free cell as the food; when the eating step has filled the grid it
\* never returns: no step of the program changes anything any more, the mode
\* stays Playing, and there is no further frame, no GameOver, no termination.
FoodPlacementTerminates ==
    /\ (InSpawnFood /\ ~GridFull) ~> (pc = "draw")
    /\ [][InSpawnFood => (~GridFull /\ pc' = "draw" /\ food' \in Cells
                            /\ \A i \in 1 .. Len(snake) : snake[i] # food')]_vars
    /\ []((InSpawnFood /\ GridFull) =>
            /\ ~ENABLED (Next /\ vars' # vars)
            /\ state = "playing"
            /\ ~game_over)
    /\ []((pc = "update" /\ ~StepCollides /\ StepHead = food) =>
            ~ENABLED (Update /\ pc' # "spawn_food"))

\* The snake ate the last free cell: spawn_food runs on a full grid.
FoodPlacementTerminatesWitness ==
    /\ InSpawnFood
    /\ GridFull
    /\ Len(snake) = grid_width * grid_height
    /\ tones = <<"eat">>

\* ----------------------------------------------------------------------- C19
\* What a poll must leave alone in Menu and GameOver.
GameFields == <<state, snake, food, score, direction, next_direction, frame_count>>

\* The events that are no start, restart, decline or quit input in the mode at
\* hand.
InertEvents ==
    IF state = "menu" THEN Events \ (StartEvents \cup CloseEvents)
    ELSE IF state = "gameover"
         THEN Events \ (RestartEvents \cup DeclineEvents \cup CloseEvents)
    ELSE {}

\* C19: direction votes apply only while Playing. In Menu and GameOver an
\* event that is no start, restart, decline or quit input, and the pointer
\* sample that ends the poll, leave mode, snake, food, score, current
\* direction, pending vote and frame counter unchanged and trigger no tone;
\* as long as the mode stays Menu or GameOver none of them changes, no tone is
\* triggered and no step is invoked, so the score of the game-over screen is
\* the score at the collision.
VotesOnlyWhilePlaying ==
    /\ []((pc = "events" /\ state \in {"menu", "gameover"}) =>
            /\ \A e \in InertEvents :
                   ~ENABLED (HandleEvent(e) /\ <<GameFields, tones, pc>>' # <<GameFields, tones, pc>>)
            /\ \A mx \in MouseXs, my \in MouseYs :
                   ~ENABLED (MouseInput(mx, my) /\ <<GameFields, tones>>' # <<GameFields, tones>>))
    /\ [][(state \in {"menu", "gameover"} /\ state' = state) =>
            /\ GameFields' = GameFields
            /\ Len(tones') <= Len(tones)
            /\ pc' # "update"]_vars
    /\ [](state \in {"menu", "gameover"} => pc \notin {"update", "spawn_food"})

\* A poll on the game-over screen, in a frame after the one of the collision,
\* has ended without a restart: the snake that died with three points is
\* still there.
VotesOnlyWhilePlayingWitness ==
    /\ pc = "tick"
    /\ state = "gameover"
    /\ tones = <<>>
    /\ score = 3
    /\ next_direction = direction

\* ----------------------------------------------------------------------- C20
\* C20: at every frame boundary, in Menu, Playing and GameOver and across
\* restarts, score = length(snake) - 1.
ScoreIsLengthMinusOne == (pc \in {"events", "draw"}) => score = Len(snake) - 1

\* A running game is at a frame boundary after it scored twice.
ScoreIsLengthMinusOneWitness ==
    /\ pc = "events"
    /\ state = "playing"
    /\ game_over = FALSE
    /\ score = 2
    /\ Len(snake) = 3
    /\ tones = <<>>
====
